---- MODULE Spec2Model ----
(***************************************************************************)
(* PIPECAST ensemble engine (src/pipecast/ensemble.py): the                *)
(* EnsembleProcessor object, the member files it scans below root_dir and  *)
(* the products it writes to root_dir/ensemble_probability.                *)
(*                                                                         *)
(* Geometry is abstracted to the grid: a polygon is the set of cells of    *)
(* the shared output grid that rasterize() burns for it, and its centroid  *)
(* is a pair of integers in hundredths of a degree.  A probability is the  *)
(* exact quotient count/denom, kept as the pair <<count, denom>>; numpy    *)
(* computes the correctly rounded float32 of the same quotient.            *)
(***************************************************************************)
EXTENDS Integers, Sequences, FiniteSets, TLC

\* ------------------------------------------------------------------ bounds
NumCells == 2
NumSlots == 3
MaxRuns == 2
MaxRankCalls == 1
GridX == 2
GridY == 2
BulkMembers == 65534
NumDates == 2
NumLeads == 2
MaxFaults == 1
MaxChunks == 3
MaxCalls == 4

Cells == 1..NumCells
Slots == 1..NumSlots

\* ------------------------------------------------------- program constants
UInt16 == 65536
\* ForecastConfig.min_aoi_area = 0.01 deg2, in units of 0.0001 deg2
min_aoi_area == 100

Bin(lo, hi) == [lo |-> lo, hi |-> hi, inf |-> FALSE]
BinFrom(lo) == [lo |-> lo, hi |-> lo, inf |-> TRUE]

DefaultBins ==
    <<Bin(0, 5), Bin(6, 39), Bin(40, 50), Bin(51, 100), Bin(100, 254), BinFrom(255)>>
DefaultLabels == <<"0-5", "6-39", "40-50", "51-100", "100-254", "255+">>

UNBINNED == "UNBINNED"

\* ------------------------------------------------------------------ inputs
\* Bin configurations handed to __init__: the defaults, and a custom one that
\* leaves the thresholds between 10 and 30 without a bin.
Configs ==
    { [bins |-> DefaultBins, labels |-> DefaultLabels],
      [bins |-> <<Bin(0, 10), Bin(30, 40)>>, labels |-> <<"0-10", "30-40">>] }

\* The member files root_dir/<method>/<date>/F<fxx>_T<thr>_aois.geojson that
\* may exist; slot s is one such path.
MethodNames == <<"standard", "enhanced">>
ThresholdValues == <<10, 39, 20>>
SlotMethod(s) == MethodNames[((s - 1) % Len(MethodNames)) + 1]
SlotThr(s) == ThresholdValues[((s - 1) % Len(ThresholdValues)) + 1]

\* Features of an AOI file.  geom: "poly" a non-empty polygon, "empty" an
\* empty geometry, "none" a missing (null) geometry.  valid: FALSE for a
\* polygon on which the GEOS set operations (union, intersects, intersection)
\* raise.
PolyNW == [geom |-> "poly", cells |-> {1}, cx |-> 1012, cy |-> 2004, valid |-> TRUE]
PolyBig == [geom |-> "poly", cells |-> {1, 2}, cx |-> 1014, cy |-> 1996, valid |-> TRUE]
PolyFar == [geom |-> "poly", cells |-> {2}, cx |-> 1058, cy |-> 2004, valid |-> TRUE]
PolyBad == [geom |-> "poly", cells |-> {2}, cx |-> 1013, cy |-> 2001, valid |-> FALSE]
EmptyGeom == [geom |-> "empty", cells |-> {}, cx |-> 0, cy |-> 0, valid |-> TRUE]
NoGeom == [geom |-> "none", cells |-> {}, cx |-> 0, cy |-> 0, valid |-> TRUE]

\* What gpd.read_file finds at a path.  kind: "unreadable" the file is
\* missing or read_file raises on it, "ok" a feature collection;
\* raster_error: the collection reads but rasterize() raises on it.
File(kind, feats, rerr) == [kind |-> kind, feats |-> feats, raster_error |-> rerr]
Unreadable == File("unreadable", <<>>, FALSE)
EmptyColl == File("ok", <<>>, FALSE)
OnePoly == File("ok", <<PolyNW>>, FALSE)
Mixed == File("ok", <<PolyNW, EmptyGeom, PolyBig, NoGeom>>, FALSE)
OnlyNone == File("ok", <<NoGeom>>, FALSE)
BadRaster == File("ok", <<PolyFar>>, TRUE)
Contents == {Unreadable, EmptyColl, OnePoly, Mixed, OnlyNone, BadRaster}

\* gdf.total_bounds of a member file after to_crs(4326), over its located
\* geometries, in hundredths of a degree.  The features above all lie in
\* HomeBox; the other boxes are a file west of Greenwich, the same place with
\* its longitudes in the 0..360 convention, and a file across 180.
Box(minx, miny, maxx, maxy) == [minx |-> minx, miny |-> miny, maxx |-> maxx, maxy |-> maxy]
HomeBox == Box(1000, 1990, 1060, 2010)
BoxChoices ==
    { HomeBox, Box(-10000, 3000, -9900, 3100), Box(26000, 3000, 26100, 3100),
      Box(17000, 3000, 19000, 3100) }

\* The files of a ranking run: polygons of one key and of different extent,
\* a polygon of another key, and a polygon GEOS cannot process.
FarPoly == File("ok", <<PolyFar>>, FALSE)
BadPoly == File("ok", <<PolyBad>>, FALSE)
RankContents == {Unreadable, OnePoly, Mixed, FarPoly, BadPoly}

TopNChoices == {0, 1, 50}

\* census_gdf: its rows (the cells a unit covers, its population) and whether
\* it has one of the population columns that rank_aois_by_probability knows.
Unit(cells, pop) == [cells |-> cells, pop |-> pop]
County == Unit({1, 2}, 1000)
CountyOdd == Unit({1, 2}, 1001)
Tract == Unit({2}, 300)
Census(units, pop_col) == [units |-> units, pop_col |-> pop_col]
CensusLayers ==
    { Census(<<County>>, TRUE), Census(<<CountyOdd, Tract>>, TRUE),
      Census(<<Tract>>, TRUE), Census(<<County>>, FALSE) }

\* Arguments of the two constructors: bin and label lists, parallel or not.
\* (None for either argument of EnsembleProcessor stands for the default
\* list.)
BinConfigs ==
    Configs \cup
    { [bins |-> <<Bin(0, 50), Bin(40, 100)>>, labels |-> <<"low", "high">>],
      [bins |-> <<Bin(40, 100), Bin(0, 50)>>, labels |-> <<"high", "low">>],
      [bins |-> <<BinFrom(0)>>, labels |-> <<"all">>],
      [bins |-> <<>>, labels |-> <<>>],
      [bins |-> <<Bin(0, 10), Bin(30, 40)>>, labels |-> <<"0-10", "30-40", "41+">>],
      [bins |-> DefaultBins, labels |-> <<"0-5", "6-39", "40-50">>],
      [bins |-> DefaultBins, labels |-> <<"only">>] }
ThresholdInputs == {0, 5, 6, 10, 20, 39, 40, 45, 50, 51, 100, 101, 254, 255, 300}
DateInputs == {"empty", "malformed", "valid"}

\* Arguments of generate_aois.  precip_data is a GridY x GridX array of mm;
\* ds gives the extreme coordinates in hundredths of a degree: a grid in the
\* 0..360 convention, one in -180..180, one that straddles 180.
\* min_area is <<>> for None, else <<area>> in units of 0.0001 deg2.
AoiCells == (1..GridY) \X (1..GridX)
PrecipValues == {0, 5, 50}
AoiThresholds == {0, 5}
MinAreaArgs == {<<>>, <<0>>, <<50>>}
Extent(lon_min, lon_max, lat_min, lat_max) ==
    [lon_min |-> lon_min, lon_max |-> lon_max, lat_min |-> lat_min, lat_max |-> lat_max]
Extents ==
    { Extent(26000, 26010, 3000, 3010), Extent(-10000, -9900, 3000, 3100),
      Extent(17990, 18010, 3000, 3010), Extent(-10000, -9500, -9000, 9000) }

\* The field of generate_aois may be larger than the window precip_data: above
\* the window it then holds prior_regions isolated wet pixels, one on every
\* second row in the first column, each a connected region of its own that
\* the scan of label() meets before the window, and a dry row between the
\* last of them and the window.  Their value is the largest of PrecipValues,
\* above every threshold.
PriorChoices == {0, 32767, 65535, 65536}
PriorValue == CHOOSE v \in PrecipValues : \A w \in PrecipValues : w <= v

\* Configurations of a ForecastProcessor: the methods, the dates (by number),
\* the lead times in hours, the thresholds in tenths of a millimetre (39.2 mm
\* is 392) and save_aois.
ForecastThresholds == {<<50, 390>>, <<392, 399>>, <<254, 259, 300>>}
ForecastConfigs ==
    [forecast_methods : {<<"standard">>, MethodNames},
     forecast_dates : {[i \in 1..n |-> i] : n \in 1..NumDates},
     fxx_list : {[i \in 1..n |-> 6 * i] : n \in 1..NumLeads},
     thresholds : ForecastThresholds,
     save_aois : BOOLEAN]

\* ------------------------------------------------------------------- state
VARIABLES
    bins,           \* self.bins
    bin_labels,     \* self.bin_labels
    disk,           \* the member files below root_dir, per slot
    members,        \* self.members
    prob_paths,     \* self.prob_paths: label -> path of its GeoTIFF
    out_files,      \* GeoTIFFs in self.out_dir: path -> probability grid
    manifest,       \* ensemble_manifest.json: <<>> or <<record>>
    pc,             \* "idle", or "loop" inside create_ensemble_probabilities
    idx,            \* position of the member loop
    counts_by_bin,  \* local accumulators of create_ensemble_probabilities
    denom_by_bin,
    result,         \* outcome of the call that has just ended, "none" otherwise
    written,        \* GeoTIFF paths written by the last run
    runs,           \* calls of create_ensemble_probabilities so far
    ranked,         \* table returned by rank_aois_by_probability, when it
                    \* is the call that has just ended
    top_n,          \* arguments of that call of rank_aois_by_probability
    census_gdf,     \* (<<>> for census_gdf=None)
    rank_calls,     \* calls of rank_aois_by_probability so far
    forecast_dates, \* ForecastConfig.forecast_dates
    setup,          \* "args", or the object constructed from the bin and
                    \* label lists, or "ValueError"
    arg_threshold,  \* argument and result of the last call of
    ret_label,      \* threshold_to_bin_label ("" before the first)
    precip_data,    \* arguments of generate_aois
    ds,
    aoi_threshold,
    min_area,
    prior_regions,  \* the regions of the field above the window precip_data
    aoi_pc,         \* "args" before the call of generate_aois, "returned" or
                    \* "ValueError" after
    gdf_aoi,        \* the GeoDataFrame it returned, as the sequence of its rows
    transform,      \* the geotransform it built: <<>> or <<record>>
    aoi_calls,      \* the library steps it invoked, in order
    file_bounds,    \* total_bounds of the member file of each slot
    prior_members,  \* members of self.members before those held in members
    config,         \* self.config of the ForecastProcessor
    fc_pc,          \* position of process_all_forecasts: "idle", "method",
                    \* "date", "combo", "returned" or "raised"
    fc_pos,         \* indices of its loops
    results,        \* self.results: <<method, date>> -> key -> entry
    aoi_files,      \* the AOI GeoJSON files: <<method, date, key>> -> content
    summary,        \* experiment_summary.json: <<>> or <<results>>
    faults,         \* failures met by the run so far
    remote_chunks,  \* size of the file behind the url, in chunks
    cache_file,     \* the file in cache_dir: <<>> absent, <<n>> with n chunks
    dl_pc,          \* "idle", or "writing" inside download_file
    dl_ret,         \* what the last call of download_file returned or raised
    dl_calls,       \* calls of download_file so far
    out_grid        \* self.west .. self.north and self.width, self.height

rankArgs == <<top_n, census_gdf>>
rankVars == <<rankArgs, rank_calls>>
setupVars == <<forecast_dates, setup, arg_threshold, ret_label>>
aoiVars == <<precip_data, ds, aoi_threshold, min_area, prior_regions, aoi_pc,
             gdf_aoi, transform, aoi_calls>>

gridVars == <<file_bounds, prior_members, out_grid>>
fcVars == <<config, fc_pc, fc_pos, results, aoi_files, summary, faults>>
dlVars == <<remote_chunks, cache_file, dl_pc, dl_ret, dl_calls>>

vars == <<bins, bin_labels, disk, members, prob_paths, out_files, manifest,
          pc, idx, counts_by_bin, denom_by_bin, result, written, runs, ranked,
          rankVars, setupVars, aoiVars, gridVars, fcVars, dlVars>>

\* ----------------------------------------------------------------- helpers
Min(a, b) == IF a < b THEN a ELSE b
Range(s) == {s[i] : i \in DOMAIN s}
Perms(S) == {p \in [1..Cardinality(S) -> S] : \A i, j \in DOMAIN p : i # j => p[i] # p[j]}
AtMostOne(S) == {{}} \cup {{x} : x \in S}
NoEntries == [l \in {} |-> <<>>]

LabelSet == Range(bin_labels)
ZeroGrid == [c \in Cells |-> 0]
ZeroCounts == [l \in LabelSet |-> ZeroGrid]
ZeroDenoms == [l \in LabelSet |-> 0]

\* ------------------------------------------------- threshold_to_bin_label
InBin(b, threshold) == b.lo <= threshold /\ (b.inf \/ threshold <= b.hi)

threshold_to_bin_label_LastMatch(threshold) ==
    LET n == Min(Len(bins), Len(bin_labels))
        hits == {i \in 1..n : InBin(bins[i], threshold)}
    IN  IF hits = {} THEN UNBINNED
        ELSE bin_labels[CHOOSE i \in hits : \A j \in hits : i >= j]

\* zip(self.bins, self.bin_labels) stops at the shorter list.
threshold_to_bin_label(threshold) ==
    LET n == Min(Len(bins), Len(bin_labels))
        hits == {i \in 1..n : InBin(bins[i], threshold)}
    IN  IF hits = {} THEN UNBINNED
        ELSE bin_labels[CHOOSE i \in hits : \A j \in hits : i <= j]

\* No call of generate_aois is modelled.
NoAoiCall ==
    /\ precip_data = [c \in AoiCells |-> 0]
    /\ ds = Extent(0, 0, 0, 0)
    /\ aoi_threshold = 0
    /\ min_area = <<>>
    /\ prior_regions = 0
    /\ aoi_pc = "args"
    /\ gdf_aoi = <<>>
    /\ transform = <<>>
    /\ aoi_calls = <<>>

\* --------------------------------------------------------- collect_members
Member(s) == [method |-> SlotMethod(s), thr |-> SlotThr(s), path |-> s]

\* Files that collect_members reads without an exception.
Collectable == {s \in Slots : disk[s].kind = "ok"}

\* iterdir() yields the files in an arbitrary order; the scan is explored in
\* ascending and in descending path order.
Monotone(p) ==
    \/ \A i, j \in DOMAIN p : i < j => p[i] < p[j]
    \/ \A i, j \in DOMAIN p : i < j => p[i] > p[j]
ScanOrders ==
    {[i \in DOMAIN p |-> Member(p[i])] : p \in {q \in Perms(Collectable) : Monotone(q)}}

\* `if lon > 180: lon -= 360`, the conversion of a bound of a bounding box.
Normalized_Skipped(lon) == lon

Normalized(lon) == IF lon > 18000 THEN lon - 36000 ELSE lon

\* The grid attributes before the first collect_members: none is assigned.
\* extent is <<>> or <<record>> with nan for bounds that are NaN; shape is
\* <<>> or <<record>> of self.width and self.height.
NoGrid == [extent |-> <<>>, shape |-> <<>>]

pad == 25
resolution_deg == 5
DefaultExtent == [west |-> -12500, south |-> 2400, east |-> -6600, north |-> 5000]

Lowest(S) == CHOOSE v \in S : \A w \in S : v <= w
Highest(S) == CHOOSE v \in S : \A w \in S : v >= w
\* int(np.ceil(a / b)) for b > 0
CeilDiv(a, b) == -((-a) \div b)

\* A file has a geometry with coordinates; total_bounds of a file without
\* one is NaN in all four places.
Located(file) == \E i \in DOMAIN file.feats : file.feats[i].geom = "poly"

\* The files of the list whose total_bounds went to all_bounds: those that
\* are not empty.
Bounded(ms) == {ms[i].path : i \in {j \in DOMAIN ms : disk[ms[j].path].feats # <<>>}}

\* The extent and the shape that collect_members assigns for the member list
\* ms.  The longitudes are converted after the union and before the padding.
\* With a NaN among the bounds, int(np.ceil(nan)) raises ValueError after
\* the four bounds were assigned: width and height keep what they were.
collect_grid(ms) ==
    LET read == Bounded(ms)
        nan == \E s \in read : ~Located(disk[s])
        raw == IF read = {} THEN DefaultExtent
               ELSE [west |-> Normalized(Lowest({file_bounds[s].minx : s \in read})),
                     south |-> Lowest({file_bounds[s].miny : s \in read}),
                     east |-> Normalized(Highest({file_bounds[s].maxx : s \in read})),
                     north |-> Highest({file_bounds[s].maxy : s \in read})]
        ext == [nan |-> FALSE, west |-> raw.west - pad, south |-> raw.south - pad,
                east |-> raw.east + pad, north |-> raw.north + pad]
    IN  IF nan
        THEN [extent |-> <<[nan |-> TRUE, west |-> 0, south |-> 0, east |-> 0, north |-> 0]>>,
              shape |-> out_grid.shape, raised |-> TRUE]
        ELSE [extent |-> <<ext>>,
              shape |-> <<[width |-> CeilDiv(ext.east - ext.west, resolution_deg),
                           height |-> CeilDiv(ext.north - ext.south, resolution_deg)]>>,
              raised |-> FALSE]

collect_members ==
    /\ pc = "idle"
    /\ \E ms \in ScanOrders :
          /\ members' = ms
          /\ out_grid' = [extent |-> collect_grid(ms).extent,
                          shape |-> collect_grid(ms).shape]
          /\ result' = IF collect_grid(ms).raised THEN "ValueError" ELSE "collected"
    /\ ranked' = <<>>
    /\ top_n' = 0
    /\ census_gdf' = <<>>
    /\ UNCHANGED <<bins, bin_labels, disk, prob_paths, out_files, manifest,
                   pc, idx, counts_by_bin, denom_by_bin, written, runs>>
    /\ UNCHANGED <<rank_calls, setupVars, aoiVars, file_bounds, prior_members, fcVars, dlVars>>

\* No run of process_all_forecasts and no download is modelled.
NoForecastRun ==
    /\ config = [forecast_methods |-> MethodNames, forecast_dates |-> <<1>>,
                 fxx_list |-> <<6>>, thresholds |-> <<50, 390>>, save_aois |-> TRUE]
    /\ fc_pc = "idle"
    /\ fc_pos = [m |-> 1, d |-> 1, k |-> 1]
    /\ results = NoEntries
    /\ aoi_files = NoEntries
    /\ summary = <<>>
    /\ faults = 0
NoDownload ==
    /\ remote_chunks = 1
    /\ cache_file = <<>>
    /\ dl_pc = "idle"
    /\ dl_ret = "none"
    /\ dl_calls = 0

\* The member files all lie in HomeBox and no grid was computed.
FilesAtHome ==
    /\ file_bounds = [s \in Slots |-> HomeBox]
    /\ prior_members = 0
    /\ out_grid = NoGrid
    /\ NoForecastRun
    /\ NoDownload

Init ==
    /\ \E cfg \in Configs : bins = cfg.bins /\ bin_labels = cfg.labels
    /\ disk \in [Slots -> Contents]
    /\ members = <<>>
    /\ prob_paths = NoEntries
    /\ out_files = NoEntries
    /\ manifest = <<>>
    /\ pc = "idle"
    /\ idx = 0
    /\ counts_by_bin = ZeroCounts
    /\ denom_by_bin = ZeroDenoms
    /\ result = "none"
    /\ written = {}
    /\ runs = 0
    /\ ranked = <<>>
    /\ top_n = 0
    /\ census_gdf = <<>>
    /\ rank_calls = 0
    /\ forecast_dates = "valid"
    /\ setup = "EnsembleProcessor"
    /\ arg_threshold = 0
    /\ ret_label = ""
    /\ NoAoiCall
    /\ FilesAtHome

\* ------------------------------------------- create_ensemble_probabilities
IsShape(f) == f.geom = "poly"

\* Variant: one empty or missing geometry discards the member's shapes.
Shapes_AllOrNothing(feats) ==
    IF \E i \in DOMAIN feats : ~IsShape(feats[i]) THEN <<>> ELSE feats

\* shapes = [(geom, 1) for geom in gdf.geometry if geom and not geom.is_empty]
Shapes(feats) == SelectSeq(feats, IsShape)

\* Variant: a cell holds the number of shapes that cover it.
rasterize_PerShape(shapes) ==
    [c \in Cells |-> Cardinality({i \in DOMAIN shapes : c \in shapes[i].cells})]

\* rasterize(shapes, fill=0, default_value=1, dtype=uint8): a burnt cell is 1
\* however many shapes cover it.
rasterize(shapes) ==
    [c \in Cells |-> IF \E i \in DOMAIN shapes : c \in shapes[i].cells THEN 1 ELSE 0]

\* Variant: the rasterized grid is assigned instead of added.
AddGrid_Assign(grid, tmp) == [c \in Cells |-> tmp[c] % UInt16]

\* counts_by_bin[lbl] += tmp.astype(np.uint16)
AddGrid(grid, tmp) == [c \in Cells |-> (grid[c] + tmp[c]) % UInt16]

\* Variant: the denominator is incremented where the grid is added.
StepMember_CountWhenAdded(counts, denom, mem, file) ==
    LET lbl == threshold_to_bin_label(mem.thr)
        skip == [err |-> "none", counts |-> counts, denom |-> denom]
    IN  IF lbl \notin DOMAIN denom
        THEN [err |-> "KeyError", counts |-> counts, denom |-> denom]
        ELSE IF file.kind # "ok" THEN skip
        ELSE IF file.feats = <<>> THEN skip
        ELSE IF Shapes(file.feats) = <<>> THEN skip
        ELSE IF file.raster_error THEN skip
        ELSE [err |-> "none",
              counts |-> [counts EXCEPT
                            ![lbl] = AddGrid(@, rasterize(Shapes(file.feats)))],
              denom |-> [denom EXCEPT ![lbl] = @ + 1]]

\* One iteration of the member loop on the accumulators; err = "KeyError"
\* when denom_by_bin has no key for the member's label.
StepMember(counts, denom, mem, file) ==
    LET lbl == threshold_to_bin_label(mem.thr)
        skip(d) == [err |-> "none", counts |-> counts, denom |-> d]
    IN  IF lbl \notin DOMAIN denom
        THEN [err |-> "KeyError", counts |-> counts, denom |-> denom]
        ELSE LET d1 == [denom EXCEPT ![lbl] = @ + 1]
             IN  IF file.kind # "ok" THEN skip(d1)
                 ELSE IF file.feats = <<>> THEN skip(d1)
                 ELSE IF Shapes(file.feats) = <<>> THEN skip(d1)
                 ELSE IF file.raster_error THEN skip(d1)
                 ELSE [err |-> "none",
                       counts |-> [counts EXCEPT
                                     ![lbl] = AddGrid(@, rasterize(Shapes(file.feats)))],
                       denom |-> d1]

\* np.clip(prob, 0.0, 1.0) on the quotient q[1]/q[2], q[2] > 0
Clip(q) ==
    IF q[1] < 0 THEN <<0, q[2]>>
    ELSE IF q[1] > q[2] THEN <<q[2], q[2]>>
    ELSE q

\* Variant: the count is stored without the division.
Probability_Undivided(count, denom) == <<count, 1>>

\* prob = counts.astype(float32) / float(denom), clipped
Probability(count, denom) == Clip(<<count, denom>>)

ProbGrid(counts, denom, lbl) ==
    [c \in Cells |-> Probability(counts[lbl][c], denom[lbl])]

\* The member loop run to its end, or to the KeyError, over the list ms.
RECURSIVE RunLoop(_, _)
RunLoop(ms, acc) ==
    IF ms = <<>> \/ acc.err # "none" THEN acc
    ELSE RunLoop(Tail(ms),
                 StepMember(acc.counts, acc.denom, Head(ms), disk[Head(ms).path]))

\* The call up to the member loop: collect_members when no member is held,
\* then np.zeros((self.height, self.width)) for every bin, which raises
\* AttributeError when no shape was ever assigned and ValueError on a
\* negative width.
AllocError(g) ==
    IF g.shape = <<>> THEN "AttributeError"
    ELSE IF g.shape[1].width < 0 \/ g.shape[1].height < 0 THEN "ValueError"
    ELSE "none"

Create_Begin ==
    /\ pc = "idle"
    /\ runs < MaxRuns
    /\ runs' = runs + 1
    /\ \E ms \in (IF members = <<>> THEN ScanOrders ELSE {members}) :
          LET c == collect_grid(ms)
              g == IF members = <<>> THEN [extent |-> c.extent, shape |-> c.shape]
                   ELSE out_grid
              err == IF members = <<>> /\ c.raised THEN "ValueError" ELSE AllocError(g)
          IN  /\ members' = ms
              /\ out_grid' = g
              /\ IF err = "none"
                 THEN pc' = "loop" /\ idx' = 1 /\ result' = "running"
                 ELSE pc' = "idle" /\ idx' = 0 /\ result' = err
    /\ counts_by_bin' = ZeroCounts
    /\ denom_by_bin' = ZeroDenoms
    /\ written' = {}
    /\ ranked' = <<>>
    /\ top_n' = 0
    /\ census_gdf' = <<>>
    /\ UNCHANGED <<bins, bin_labels, disk, prob_paths, out_files, manifest>>
    /\ UNCHANGED <<rank_calls, setupVars, aoiVars, file_bounds, prior_members, fcVars, dlVars>>

Create_Member ==
    /\ pc = "loop"
    /\ idx <= Len(members)
    /\ LET r == StepMember(counts_by_bin, denom_by_bin, members[idx],
                           disk[members[idx].path])
       IN  IF r.err = "KeyError"
           THEN /\ pc' = "idle"
                /\ idx' = 0
                /\ counts_by_bin' = ZeroCounts
                /\ denom_by_bin' = ZeroDenoms
                /\ result' = "KeyError"
           ELSE /\ pc' = pc
                /\ idx' = idx + 1
                /\ counts_by_bin' = r.counts
                /\ denom_by_bin' = r.denom
                /\ result' = result
    /\ UNCHANGED <<bins, bin_labels, disk, members, prob_paths, out_files,
                   manifest, ranked, written, runs>>
    /\ UNCHANGED <<rankVars, setupVars, aoiVars, gridVars, fcVars, dlVars>>

PlainPath(lbl) == <<lbl, "plain">>
StampedPath(lbl) == <<lbl, "stamped">>

\* save_manifest(denom_by_bin), after self.prob_paths was updated; of the
\* manifest, the denominators and the probability_tifs (the grid and the
\* bins are fixed by the configuration).
save_manifest(denom, paths) ==
    <<[denominators |-> denom, probability_tifs |-> paths]>>

\* The loop over the bins and the manifest.  locked: bins whose existing
\* GeoTIFF cannot be unlinked; denied: bins whose GeoTIFF cannot be opened
\* for writing (PermissionError both).
Create_Finish ==
    /\ pc = "loop"
    /\ idx > Len(members)
    /\ LET live == {l \in LabelSet : denom_by_bin[l] # 0}
           old == {l \in live : PlainPath(l) \in DOMAIN out_files}
       IN  \E locked \in AtMostOne(old), denied \in AtMostOne(live) :
             LET tif_path(l) == IF l \in locked THEN StampedPath(l) ELSE PlainPath(l)
                 unlinked == {PlainPath(l) : l \in old \ locked}
                 saved == live \ denied
                 newfiles == {tif_path(l) : l \in saved}
                 paths == [l \in DOMAIN prob_paths \cup saved |->
                              IF l \in saved THEN tif_path(l) ELSE prob_paths[l]]
             IN  /\ out_files' =
                       [p \in (DOMAIN out_files \ unlinked) \cup newfiles |->
                           IF p \in newfiles
                           THEN ProbGrid(counts_by_bin, denom_by_bin, p[1])
                           ELSE out_files[p]]
                 /\ written' = newfiles
                 /\ prob_paths' = paths
                 /\ manifest' = save_manifest(denom_by_bin, paths)
    /\ pc' = "idle"
    /\ idx' = 0
    /\ counts_by_bin' = ZeroCounts
    /\ denom_by_bin' = ZeroDenoms
    /\ result' = "returned"
    /\ UNCHANGED <<bins, bin_labels, disk, members, ranked, runs>>
    /\ UNCHANGED <<rankVars, setupVars, aoiVars, gridVars, fcVars, dlVars>>

\* ------------------------------------------------ rank_aois_by_probability
\* Series.round(1) of a coordinate given in hundredths of a degree, as tenths
\* of a degree; a tie goes to the even tenth.
Round1(v) ==
    LET q == v \div 10
        r == v % 10
    IN  IF r < 5 THEN q
        ELSE IF r > 5 THEN q + 1
        ELSE IF q % 2 = 0 THEN q ELSE q + 1

\* One aoi_data record.  The centroid of an empty geometry is NaN.
Row(mem, f) ==
    [method |-> mem.method,
     bin |-> threshold_to_bin_label(mem.thr),
     cells |-> f.cells,
     valid |-> f.valid,
     nan |-> f.geom = "empty",
     centroid_lon |-> IF f.geom = "empty" THEN 0 ELSE Round1(f.cx),
     centroid_lat |-> IF f.geom = "empty" THEN 0 ELSE Round1(f.cy)]

\* The rows appended for one member before row['geometry'].area raises on a
\* missing geometry; the except clause keeps the rows appended so far.
RECURSIVE TakeRows(_, _)
TakeRows(mem, feats) ==
    IF feats = <<>> THEN <<>>
    ELSE IF Head(feats).geom = "none" THEN <<>>
    ELSE <<Row(mem, Head(feats))>> \o TakeRows(mem, Tail(feats))

MemberRows(mem) ==
    IF disk[mem.path].kind # "ok" THEN <<>>
    ELSE TakeRows(mem, disk[mem.path].feats)

RECURSIVE AoiData(_)
AoiData(ms) ==
    IF ms = <<>> THEN <<>> ELSE MemberRows(Head(ms)) \o AoiData(Tail(ms))

GroupKey_NoBin(r) == <<r.centroid_lon, r.centroid_lat, "any">>

GroupKey(r) == <<r.centroid_lon, r.centroid_lat, r.bin>>

\* groupby(['centroid_lon', 'centroid_lat', 'bin']) drops the NaN keys;
\* 'method' is aggregated with list(x), ensemble_count is its length.
Grouped(rows) ==
    LET keys == {GroupKey(rows[i]) : i \in {j \in DOMAIN rows : ~rows[j].nan}}
        group(k) ==
            LET InGroup(r) == ~r.nan /\ GroupKey(r) = k
                sel == SelectSeq(rows, InGroup)
                method == [i \in DOMAIN sel |-> sel[i].method]
            IN  [centroid_lon |-> k[1], centroid_lat |-> k[2], bin |-> k[3],
                 method |-> method, ensemble_count |-> Len(method)]
    IN  {group(k) : k \in keys}

\* The population block, run for each group when census_gdf is given.
\* matching_rows: the rows of gdf_all at the group's rounded centroid.
MatchingRows(rows, g) ==
    LET AtCentroid(r) ==
            /\ ~r.nan
            /\ r.centroid_lon = g.centroid_lon
            /\ r.centroid_lat = g.centroid_lat
    IN  SelectSeq(rows, AtCentroid)

\* shapely.ops.unary_union of a list of geometries
unary_union(geom_list) ==
    [cells |-> UNION {geom_list[i].cells : i \in DOMAIN geom_list},
     valid |-> \A i \in DOMAIN geom_list : geom_list[i].valid]

\* unary_union is called for two geometries or more and stands before the
\* try statement: an exception of it leaves rank_aois_by_probability.
UnionRaises(rows, g) ==
    LET geom_list == MatchingRows(rows, g)
    IN  Len(geom_list) > 1 /\ ~unary_union(geom_list).valid

CombinedGeom(rows, g) ==
    LET geom_list == MatchingRows(rows, g)
    IN  IF Len(geom_list) = 1
        THEN [cells |-> geom_list[1].cells, valid |-> geom_list[1].valid]
        ELSE unary_union(geom_list)

\* census_gdf[census_gdf.intersects(combined_geom)]
Intersecting(census, geom) ==
    LET Hits(u) == u.cells \cap geom.cells # {}
    IN  SelectSeq(census.units, Hits)

\* The sum of weighted_pop = population * intersection_area / original_area
\* over the intersecting units, as the exact quotient PopNum / PopDen.
RECURSIVE PopDen(_)
PopDen(units) ==
    IF units = <<>> THEN 1
    ELSE Cardinality(Head(units).cells) * PopDen(Tail(units))

RECURSIVE PopNum(_, _, _)
PopNum(units, geom, den) ==
    IF units = <<>> THEN 0
    ELSE LET u == Head(units)
         IN  u.pop * Cardinality(u.cells \cap geom.cells) * (den \div Cardinality(u.cells))
             + PopNum(Tail(units), geom, den)

\* The value appended to pop_list for a group: 0 from the except clause when
\* GEOS raises on the geometry, 0 without an intersecting unit or without a
\* population column, int() of the weighted sum otherwise.
PopulationAffected_Whole(census, geom) ==
    IF ~geom.valid THEN 0
    ELSE LET hit == Intersecting(census, geom)
             RECURSIVE Total(_)
             Total(us) == IF us = <<>> THEN 0 ELSE Head(us).pop + Total(Tail(us))
         IN  IF hit = <<>> \/ ~census.pop_col THEN 0 ELSE Total(hit)

PopulationAffected(census, geom) ==
    IF ~geom.valid THEN 0
    ELSE LET hit == Intersecting(census, geom)
         IN  IF hit = <<>> THEN 0
             ELSE IF ~census.pop_col THEN 0
             ELSE PopNum(hit, geom, PopDen(hit)) \div PopDen(hit)

\* grouped after the population block.  census: <<>> for None, <<layer>>
\* otherwise.  population_affected is <<>> when the table has no such column
\* and <<pop>> when it has; combined_geom keeps with the row the geometry
\* that the block intersected for it.
Populate_ZeroColumn(groups, rows, census) ==
    {[centroid_lon |-> g.centroid_lon, centroid_lat |-> g.centroid_lat,
      bin |-> g.bin, method |-> g.method, ensemble_count |-> g.ensemble_count,
      population_affected |->
          IF census = <<>> THEN <<0>>
          ELSE <<PopulationAffected(census[1], CombinedGeom(rows, g))>>,
      combined_geom |->
          IF census = <<>> THEN {} ELSE CombinedGeom(rows, g).cells] : g \in groups}

Populate(groups, rows, census) ==
    {[centroid_lon |-> g.centroid_lon, centroid_lat |-> g.centroid_lat,
      bin |-> g.bin, method |-> g.method, ensemble_count |-> g.ensemble_count,
      population_affected |->
          IF census = <<>> THEN <<>>
          ELSE <<PopulationAffected(census[1], CombinedGeom(rows, g))>>,
      combined_geom |->
          IF census = <<>> THEN {} ELSE CombinedGeom(rows, g).cells] : g \in groups}

\* sort_values('ensemble_count', ascending=False): any order of the ties
SortedTables_Unsorted(groups) == Perms(groups)

SortedTables(groups) ==
    {p \in Perms(groups) :
        \A i, j \in DOMAIN p : i < j => p[i].ensemble_count >= p[j].ensemble_count}

\* DataFrame.head(n), n >= 0
HeadRows(table, n) == SubSeq(table, 1, Min(n, Len(table)))

\* rank_aois_by_probability(census_gdf, top_n) as a whole
Rank(census, n) ==
    /\ pc = "idle"
    /\ rank_calls < MaxRankCalls
    /\ rank_calls' = rank_calls + 1
    /\ \E ms \in (IF members = <<>> THEN ScanOrders ELSE {members}) :
          /\ members' = ms
          /\ out_grid' = IF members = <<>>
                            THEN [extent |-> collect_grid(ms).extent,
                                  shape |-> collect_grid(ms).shape]
                         ELSE out_grid
          /\ LET rows == AoiData(ms)
                 groups == Grouped(rows)
             IN  IF members = <<>> /\ collect_grid(ms).raised
                 THEN ranked' = <<>> /\ result' = "ValueError"
                 ELSE IF rows = <<>>
                 THEN ranked' = <<>> /\ result' = "ranked"
                 ELSE IF census # <<>> /\ \E g \in groups : UnionRaises(rows, g)
                 THEN ranked' = <<>> /\ result' = "GEOSException"
                 ELSE /\ \E table \in SortedTables(Populate(groups, rows, census)) :
                            ranked' = HeadRows(table, n)
                      /\ result' = "ranked"
    /\ top_n' = n
    /\ census_gdf' = census
    /\ UNCHANGED <<bins, bin_labels, disk, prob_paths, out_files, manifest,
                   pc, idx, counts_by_bin, denom_by_bin, written, runs>>
    /\ UNCHANGED <<setupVars, aoiVars, file_bounds, prior_members, fcVars, dlVars>>

\* rank_aois_by_probability(census_gdf=None, top_n): the table with the
\* grouping columns, 'method' and ensemble_count.
rank_aois_by_probability == \E n \in TopNChoices : Rank(<<>>, n)

\* rank_aois_by_probability(census_gdf, top_n) with a population layer
rank_with_census ==
    \E n \in TopNChoices, layer \in CensusLayers : Rank(<<layer>>, n)

\* ------------------------------------------------------------ construction
ensembleState ==
    <<disk, members, prob_paths, out_files, manifest, pc, idx, counts_by_bin,
      denom_by_bin, result, written, runs, ranked>>

\* ForecastConfig.__post_init__ on the fields of the dataclass (the
\* conversion of weather_dataset, which follows the checks, is left out).
ForecastConfig_post_init ==
    /\ setup = "args"
    /\ setup' = IF forecast_dates = "empty" THEN "ValueError"
                ELSE IF forecast_dates = "malformed" THEN "ValueError"
                ELSE IF Len(bins) # Len(bin_labels) THEN "ValueError"
                ELSE "ForecastConfig"
    /\ UNCHANGED <<bins, bin_labels, ensembleState, rankVars,
                   forecast_dates, arg_threshold, ret_label, aoiVars, gridVars, fcVars, dlVars>>

\* EnsembleProcessor.__init__ on lists given by the caller or taken from a
\* ForecastConfig: the lists are stored as they are.
EnsembleProcessor_init ==
    /\ setup \in {"args", "ForecastConfig"}
    /\ setup' = "EnsembleProcessor"
    /\ bins' = bins
    /\ bin_labels' = bin_labels
    /\ members' = <<>>
    /\ prob_paths' = NoEntries
    /\ UNCHANGED <<disk, out_files, manifest, pc, idx, counts_by_bin,
                   denom_by_bin, result, written, runs, ranked, rankVars,
                   forecast_dates, arg_threshold, ret_label, aoiVars, gridVars, fcVars, dlVars>>

\* A call processor.threshold_to_bin_label(t)
Call_threshold_to_bin_label ==
    /\ setup = "EnsembleProcessor"
    /\ \E t \in ThresholdInputs :
          /\ arg_threshold' = t
          /\ ret_label' = threshold_to_bin_label(t)
    /\ UNCHANGED <<bins, bin_labels, ensembleState, rankVars, forecast_dates,
                   setup, aoiVars, gridVars, fcVars, dlVars>>

\* ------------------------------------------------------------ generate_aois
\* mask = precip_data > threshold
Mask_NonStrict(data, threshold) == {c \in AoiCells : data[c] >= threshold}

Mask(data, threshold) == {c \in AoiCells : data[c] > threshold}

Abs(v) == IF v < 0 THEN -v ELSE v

\* scipy.ndimage.label with its default structure: regions connected through
\* edges, numbered in the order in which a row-by-row scan meets them.
Adjacent(c, e) == Abs(c[1] - e[1]) + Abs(c[2] - e[2]) = 1

RECURSIVE Grow(_, _)
Grow(region, mask) ==
    LET more == region \cup {e \in mask : \E c \in region : Adjacent(c, e)}
    IN  IF more = region THEN region ELSE Grow(more, mask)

Regions(mask) == {Grow({c}, mask) : c \in mask}

ScanIndex(c) == (c[1] - 1) * GridX + c[2]
FirstCell(region) ==
    CHOOSE c \in region : \A e \in region : ScanIndex(c) <= ScanIndex(e)

\* The regions of the window are numbered after the prior_regions regions
\* that the scan met above it.
label(mask) ==
    LET regions == Regions(mask)
    IN  [labeled |->
            [region \in regions |->
                prior_regions + 1 + Cardinality({o \in regions :
                        ScanIndex(FirstCell(o)) < ScanIndex(FirstCell(region))})],
         num_features |-> prior_regions + Cardinality(regions)]

\* ndarray.astype(np.int16) of a label
AsInt16(v) == ((v + 32768) % 65536) - 32768

\* ds.dims["y"]: the rows of the window and two for every region above it.
FieldRows == GridY + 2 * prior_regions

\* from_bounds(lon_min, lat_min, lon_max, lat_max, ds.dims["x"], ds.dims["y"])
\* on the bounds after the conversion.
from_bounds(extent) ==
    [west |-> Normalized(extent.lon_min), south |-> extent.lat_min,
     east |-> Normalized(extent.lon_max), north |-> extent.lat_max,
     width |-> GridX, height |-> FieldRows]

\* Polygon.area of a region of n pixels under that transform, in units of
\* 0.0001 deg2, as the quotient <<numerator, denominator>>.
PolygonArea(n, extent) ==
    LET t == from_bounds(extent)
    IN  <<n * Abs(t.east - t.west) * Abs(t.north - t.south), t.width * t.height>>

\* poly.area < min_area: the region is dropped
BelowCutoff_Inclusive(area, cutoff) == area[1] <= cutoff * area[2]

BelowCutoff(area, cutoff) == area[1] < cutoff * area[2]

RECURSIVE SumOver(_, _)
SumOver(cells, data) ==
    IF cells = {} THEN 0
    ELSE LET c == CHOOSE c \in cells : TRUE
         IN  data[c] + SumOver(cells \ {c}, data)

MaxOver(cells, data) ==
    CHOOSE v \in {data[c] : c \in cells} : \A c \in cells : data[c] <= v

\* features.shapes(labeled.astype(np.int16), mask=mask, transform=transform):
\* the regions of equal value inside the mask, with their value, in the
\* order of the scan.
shapes(labeled) ==
    LET regions == DOMAIN labeled
        Before(a, b) == ScanIndex(FirstCell(a)) < ScanIndex(FirstCell(b))
        order == CHOOSE p \in Perms(regions) : \A i, j \in DOMAIN p : i < j => Before(p[i], p[j])
    IN  [i \in DOMAIN order |-> [geom |-> order[i], label_id |-> AsInt16(labeled[order[i]])]]

\* The pixel of the k-th region above the window, in the coordinates of the
\* window (rows at and below 0 lie above it).
PriorCell(k) == <<2 * (k - prior_regions) - 1, 1>>

\* aoi_mask = labeled == label_id, on the labels as label() returned them:
\* the pixel of a region above the window, or the cells of the window that
\* carry the label, and the mean and the maximum of the field over them.
PriorHit(label_id) == 1 <= label_id /\ label_id <= prior_regions
WindowHit(labeled, label_id) == UNION {r \in DOMAIN labeled : labeled[r] = label_id}
NothingSelected(labeled, label_id) ==
    ~PriorHit(label_id) /\ WindowHit(labeled, label_id) = {}

MeanOf(labeled, data, label_id) ==
    IF PriorHit(label_id) THEN <<PriorValue, 1>>
    ELSE <<SumOver(WindowHit(labeled, label_id), data),
           Cardinality(WindowHit(labeled, label_id))>>

MaxOf(labeled, data, label_id) ==
    IF PriorHit(label_id) THEN PriorValue
    ELSE MaxOver(WindowHit(labeled, label_id), data)

\* The shapes of the regions above the window whose rows the loop appends;
\* ndarray.max() of the empty selection of a label that has no cell raises
\* ValueError.
PriorKept(extent, cutoff) ==
    prior_regions > 0 /\ ~BelowCutoff(PolygonArea(1, extent), cutoff)
PriorRaises(extent, cutoff) ==
    PriorKept(extent, cutoff) /\ prior_regions >= 32768
PriorRows(extent, cutoff) ==
    IF ~PriorKept(extent, cutoff) THEN <<>>
    ELSE [k \in 1..prior_regions |->
             [id |-> AsInt16(k),
              geometry |-> {PriorCell(k)},
              mean_precip_mm |-> <<PriorValue, 1>>,
              max_precip_mm |-> PriorValue,
              area_deg2 |-> PolygonArea(1, extent)]]

\* The loop over the shapes of the window: one row for each shape kept.
RECURSIVE AoiRows(_, _, _, _, _)
AoiRows(shps, labeled, data, extent, cutoff) ==
    IF shps = <<>> THEN <<>>
    ELSE LET sh == Head(shps)
             rest == AoiRows(Tail(shps), labeled, data, extent, cutoff)
             area == PolygonArea(Cardinality(sh.geom), extent)
         IN  IF sh.label_id = 0 THEN rest
             ELSE IF BelowCutoff(area, cutoff) THEN rest
             ELSE <<[id |-> sh.label_id,
                     geometry |-> sh.geom,
                     mean_precip_mm |-> MeanOf(labeled, data, sh.label_id),
                     max_precip_mm |-> MaxOf(labeled, data, sh.label_id),
                     area_deg2 |-> area]>> \o rest

\* A shape that the loop keeps selects no cell.
AoiRaises(shps, labeled, extent, cutoff) ==
    \E i \in DOMAIN shps :
        /\ shps[i].label_id # 0
        /\ ~BelowCutoff(PolygonArea(Cardinality(shps[i].geom), extent), cutoff)
        /\ NothingSelected(labeled, shps[i].label_id)

\* The library steps of one call: label() runs on every mask, the transform
\* and the polygonization only when it found a region.
CallsMade_ShortCircuit(num_features) ==
    IF num_features = 0 THEN <<>> ELSE <<"label", "from_bounds", "shapes">>

CallsMade(num_features) ==
    IF num_features = 0 THEN <<"label">> ELSE <<"label", "from_bounds", "shapes">>

\* ForecastProcessor.generate_aois(precip_data, ds, threshold, min_area)
generate_aois ==
    /\ aoi_pc = "args"
    /\ LET cutoff == IF min_area = <<>> THEN min_aoi_area ELSE min_area[1]
           mask == Mask(precip_data, aoi_threshold)
           lab == label(mask)
           shps == shapes(lab.labeled)
       IN  /\ aoi_calls' = CallsMade(lab.num_features)
           /\ transform' = IF lab.num_features = 0 THEN <<>> ELSE <<from_bounds(ds)>>
           /\ IF lab.num_features = 0
                  THEN gdf_aoi' = <<>> /\ aoi_pc' = "returned"
               ELSE IF PriorRaises(ds, cutoff) \/ AoiRaises(shps, lab.labeled, ds, cutoff)
                  THEN gdf_aoi' = <<>> /\ aoi_pc' = "ValueError"
               ELSE /\ gdf_aoi' = PriorRows(ds, cutoff)
                                     \o AoiRows(shps, lab.labeled, precip_data, ds, cutoff)
                    /\ aoi_pc' = "returned"
    /\ UNCHANGED <<precip_data, ds, aoi_threshold, min_area, prior_regions>>
    /\ UNCHANGED <<bins, bin_labels, ensembleState, rankVars, setupVars, gridVars, fcVars, dlVars>>

\* ------------------------------------------------- process_all_forecasts
\* The key of a combination: f"F{fxx}_T{int(threshold)}".  int() drops the
\* fraction of the threshold.
Key(fxx, threshold) == <<fxx, threshold \div 10>>

\* d[k] = v on a dict
Put(dict, k, v) == [x \in DOMAIN dict \cup {k} |-> IF x = k THEN v ELSE dict[x]]

\* The outcomes that the environment allows at a step that can fail.
Outcomes == IF faults < MaxFaults THEN {TRUE, FALSE} ELSE {TRUE}

\* The combination at position k of the loops over fxx_list and, inside it,
\* over thresholds.
NumCombos == Len(config.fxx_list) * Len(config.thresholds)
LeadAt(k) == ((k - 1) \div Len(config.thresholds)) + 1
ThresholdAt(k) == ((k - 1) % Len(config.thresholds)) + 1

\* The call up to the loop over the methods: self.results[method] = {}.
process_all_forecasts ==
    /\ fc_pc = "idle"
    /\ fc_pc' = "method"
    /\ fc_pos' = [m |-> 1, d |-> 1, k |-> 1]
    /\ results' = NoEntries
    /\ UNCHANGED <<config, aoi_files, summary, faults, dlVars>>
    /\ UNCHANGED <<bins, bin_labels, ensembleState, rankVars, setupVars, aoiVars, gridVars>>

\* One turn of the loop over the methods: method_dir.mkdir(exist_ok=True),
\* which is outside every try; after the last method save_summary() and the
\* return.
Forecast_Method ==
    /\ fc_pc = "method"
    /\ \E ok \in Outcomes :
          /\ faults' = IF ok THEN faults ELSE faults + 1
          /\ IF ~ok
             THEN fc_pc' = "raised" /\ UNCHANGED <<fc_pos, summary>>
             ELSE IF fc_pos.m > Len(config.forecast_methods)
             THEN fc_pc' = "returned" /\ summary' = <<results>> /\ UNCHANGED fc_pos
             ELSE /\ fc_pc' = "date"
                  /\ fc_pos' = [fc_pos EXCEPT !.d = 1]
                  /\ UNCHANGED summary
    /\ UNCHANGED <<config, results, aoi_files, dlVars>>
    /\ UNCHANGED <<bins, bin_labels, ensembleState, rankVars, setupVars, aoiVars, gridVars>>

\* One turn of the loop over the dates: date_dir.mkdir(exist_ok=True), outside
\* every try, and self.results[method][date_str] = {}.
Forecast_Date ==
    /\ fc_pc = "date"
    /\ IF fc_pos.d > Len(config.forecast_dates)
       THEN /\ fc_pc' = "method"
            /\ fc_pos' = [fc_pos EXCEPT !.m = @ + 1]
            /\ UNCHANGED <<results, faults>>
       ELSE \E ok \in Outcomes :
              /\ faults' = IF ok THEN faults ELSE faults + 1
              /\ IF ~ok
                 THEN fc_pc' = "raised" /\ UNCHANGED <<fc_pos, results>>
                 ELSE /\ fc_pc' = "combo"
                      /\ fc_pos' = [fc_pos EXCEPT !.k = 1]
                      /\ results' = Put(results,
                                        <<config.forecast_methods[fc_pos.m],
                                          config.forecast_dates[fc_pos.d]>>,
                                        NoEntries)
    /\ UNCHANGED <<config, aoi_files, summary, dlVars>>
    /\ UNCHANGED <<bins, bin_labels, ensembleState, rankVars, setupVars, aoiVars, gridVars>>

\* One turn of the loops over the lead times and the thresholds: the try
\* block with process_single_forecast, the entry of the statistics and the
\* AOI file, or the error entry of the except clause.  by is the
\* combination that an entry or a file comes from.
Forecast_Combination ==
    /\ fc_pc = "combo"
    /\ IF fc_pos.k > NumCombos
       THEN /\ fc_pc' = "date"
            /\ fc_pos' = [fc_pos EXCEPT !.d = @ + 1]
            /\ UNCHANGED <<results, aoi_files, faults>>
       ELSE \E ok \in Outcomes :
              LET method == config.forecast_methods[fc_pos.m]
                  date == config.forecast_dates[fc_pos.d]
                  fxx == config.fxx_list[LeadAt(fc_pos.k)]
                  threshold == config.thresholds[ThresholdAt(fc_pos.k)]
                  key == Key(fxx, threshold)
                  by == <<fxx, threshold>>
              IN  /\ faults' = IF ok THEN faults ELSE faults + 1
                  /\ results' =
                        [results EXCEPT ![<<method, date>>] =
                            Put(@, key, [kind |-> IF ok THEN "stats" ELSE "error",
                                         by |-> by])]
                  /\ aoi_files' =
                        IF ok /\ config.save_aois
                        THEN Put(aoi_files, <<method, date, key>>, [by |-> by])
                        ELSE aoi_files
                  /\ fc_pc' = fc_pc
                  /\ fc_pos' = [fc_pos EXCEPT !.k = @ + 1]
    /\ UNCHANGED <<config, summary, dlVars>>
    /\ UNCHANGED <<bins, bin_labels, ensembleState, rankVars, setupVars, aoiVars, gridVars>>

\* ------------------------------------------------ DataManager.download_file
\* The call up to the transfer: the cached path when the file exists, else
\* requests.get and raise_for_status, which may raise, and open(filepath,
\* 'wb'), which creates the file.
download_file ==
    /\ dl_pc = "idle"
    /\ dl_calls < MaxCalls
    /\ dl_calls' = dl_calls + 1
    /\ IF cache_file # <<>>
       THEN dl_ret' = "cached" /\ UNCHANGED <<cache_file, dl_pc>>
       ELSE \/ /\ dl_ret' \in {"ConnectionError", "HTTPError"}
               /\ UNCHANGED <<cache_file, dl_pc>>
            \/ /\ cache_file' = <<0>>
               /\ dl_pc' = "writing"
               /\ dl_ret' = "none"
    /\ UNCHANGED <<remote_chunks, fcVars>>
    /\ UNCHANGED <<bins, bin_labels, ensembleState, rankVars, setupVars, aoiVars, gridVars>>

\* f.write(chunk) for the next chunk of response.iter_content
Write_Chunk ==
    /\ dl_pc = "writing"
    /\ cache_file[1] < remote_chunks
    /\ cache_file' = <<cache_file[1] + 1>>
    /\ UNCHANGED <<remote_chunks, dl_pc, dl_ret, dl_calls, fcVars>>
    /\ UNCHANGED <<bins, bin_labels, ensembleState, rankVars, setupVars, aoiVars, gridVars>>

\* iter_content raises (the connection breaks) or the call is interrupted:
\* the with block closes the file and the exception leaves download_file.
Transfer_Fails ==
    /\ dl_pc = "writing"
    /\ cache_file[1] < remote_chunks
    /\ dl_pc' = "idle"
    /\ dl_ret' = "ChunkedEncodingError"
    /\ UNCHANGED <<remote_chunks, cache_file, dl_calls, fcVars>>
    /\ UNCHANGED <<bins, bin_labels, ensembleState, rankVars, setupVars, aoiVars, gridVars>>

\* The last chunk was written: return filepath.
Download_Done ==
    /\ dl_pc = "writing"
    /\ cache_file[1] = remote_chunks
    /\ dl_pc' = "idle"
    /\ dl_ret' = "downloaded"
    /\ UNCHANGED <<remote_chunks, cache_file, dl_calls, fcVars>>
    /\ UNCHANGED <<bins, bin_labels, ensembleState, rankVars, setupVars, aoiVars, gridVars>>

\* ------------------------------------------------------------ environment
\* Between two calls a member file is removed or damaged.
DiskChange ==
    /\ pc = "idle"
    /\ \E s \in Slots :
          /\ disk[s] # Unreadable
          /\ disk' = [disk EXCEPT ![s] = Unreadable]
    /\ result' = "none"
    /\ ranked' = <<>>
    /\ top_n' = 0
    /\ census_gdf' = <<>>
    /\ UNCHANGED <<bins, bin_labels, members, prob_paths, out_files, manifest,
                   pc, idx, counts_by_bin, denom_by_bin, written, runs>>
    /\ UNCHANGED <<rank_calls, setupVars, aoiVars, gridVars, fcVars, dlVars>>

\* ------------------------------------------------------------------ claims
InMemberStep == pc = "loop" /\ idx <= Len(members)
LoopDone == pc = "loop" /\ idx > Len(members)
LabelOf(i) == threshold_to_bin_label(members[i].thr)
FileOf(i) == disk[members[i].path]

\* The grid a member's file rasterizes to: 1 where one of its polygons lies.
MemberGrid(file) ==
    [c \in Cells |->
        IF \E i \in DOMAIN file.feats :
              file.feats[i].geom = "poly" /\ c \in file.feats[i].cells
        THEN 1 ELSE 0]

\* A member file that is read and rasterized without an exception.
Processable(file) == file.kind = "ok" /\ ~file.raster_error

\* C1: a member whose threshold matches no bin does not abort the run: the
\* loop goes on to the next member and no denominator changes.
C1_UnmatchedIsNotFatal ==
    [][(InMemberStep /\ LabelOf(idx) = UNBINNED)
          => (pc' = "loop" /\ idx' = idx + 1 /\ denom_by_bin' = denom_by_bin)]_vars

\* C2: in every row of the ranked table ensemble_count is the number of
\* distinct methods among the AOIs of the group.
C2_CountIsDistinctMethods ==
    \A i \in DOMAIN ranked :
        ranked[i].ensemble_count = Cardinality(Range(ranked[i].method))

\* C3: a member whose file fails to read is left out by collect_members
\* and, in the member loop, is not counted in the denominator of its bin.
C3_FailedMemberNotCounted ==
    /\ result = "collected" => \A i \in DOMAIN members : FileOf(i).kind = "ok"
    /\ pc = "loop" =>
          \A l \in LabelSet :
              denom_by_bin[l] <=
                  Cardinality({i \in 1..(idx - 1) : LabelOf(i) = l /\ FileOf(i).kind = "ok"})

\* C4: every cell of every probability grid written lies in [0, 1].
C4_ProbabilityInUnitInterval ==
    \A p \in DOMAIN out_files : \A c \in Cells :
        /\ out_files[p][c][2] > 0
        /\ 0 <= out_files[p][c][1]
        /\ out_files[p][c][1] <= out_files[p][c][2]

C4_Witness ==
    \E p \in DOMAIN out_files : \E c \in Cells :
        0 < out_files[p][c][1] /\ out_files[p][c][1] < out_files[p][c][2]

Permuted(p) == [i \in DOMAIN members |-> members[p[i]]]
FreshAcc == [err |-> "none", counts |-> ZeroCounts, denom |-> ZeroDenoms]

\* C5: the member loop run over any permutation of self.members ends with
\* the same count grids, denominators and probability grids, or with the
\* same KeyError.
C5_OrderIndependent ==
    /\ LoopDone =>
          \A p \in Perms(DOMAIN members) :
              LET r == RunLoop(Permuted(p), FreshAcc)
              IN  /\ r.err = "none"
                  /\ r.counts = counts_by_bin
                  /\ r.denom = denom_by_bin
                  /\ \A l \in LabelSet :
                        r.denom[l] # 0 =>
                           ProbGrid(r.counts, r.denom, l)
                             = ProbGrid(counts_by_bin, denom_by_bin, l)
    /\ result = "KeyError" =>
          \A p \in Perms(DOMAIN members) :
              RunLoop(Permuted(p), FreshAcc).err = "KeyError"

C5_Witness ==
    /\ LoopDone
    /\ Len(members) >= 2
    /\ members[1].path > members[2].path
    /\ FileOf(1) # FileOf(2)
    /\ \E l \in LabelSet : \E c \in Cells :
          counts_by_bin[l][c] >= 1 /\ counts_by_bin[l][c] < denom_by_bin[l]

\* The members that count for a bin: those read and rasterized.
Contributing(l) == {i \in DOMAIN members : LabelOf(i) = l /\ Processable(FileOf(i))}
Covering(l, c) == {i \in Contributing(l) : MemberGrid(FileOf(i))[c] = 1}

\* C6: after a run, in a bin with n >= 1 contributing members the cell
\* covered by the polygons of k of them has probability k/n.
C6_ProbabilityIsFraction ==
    result = "returned" =>
        \A p \in written : \A c \in Cells :
            LET n == Cardinality(Contributing(p[1]))
                k == Cardinality(Covering(p[1], c))
            IN  n >= 1 => out_files[p][c][1] * n = k * out_files[p][c][2]

\* C7: an iteration of the member loop either adds the member in full (its
\* bin's denominator and its rasterized grid) or adds nothing of it.
C7_MemberAddedAtomically ==
    [][InMemberStep =>
          LET l == LabelOf(idx)
              file == FileOf(idx)
          IN  \/ pc' = "idle"
              \/ denom_by_bin' = denom_by_bin /\ counts_by_bin' = counts_by_bin
              \/ /\ file.kind = "ok"
                 /\ l \in LabelSet
                 /\ denom_by_bin' = [denom_by_bin EXCEPT ![l] = @ + 1]
                 /\ counts_by_bin' =
                       [counts_by_bin EXCEPT
                          ![l] = [c \in Cells |-> (@[c] + MemberGrid(file)[c]) % UInt16]]
      ]_vars

\* C8: a member whose AOI collection is empty adds exactly 1 to the
\* denominator of its bin and nothing to any count grid.
C8_EmptyMemberCounts ==
    [][(InMemberStep /\ LabelOf(idx) \in LabelSet
          /\ FileOf(idx).kind = "ok" /\ FileOf(idx).feats = <<>>)
          => /\ denom_by_bin' = [denom_by_bin EXCEPT ![LabelOf(idx)] = @ + 1]
             /\ counts_by_bin' = counts_by_bin
             /\ pc' = "loop"]_vars

C8_Witness ==
    /\ pc = "loop"
    /\ idx > 1
    /\ LabelOf(idx - 1) \in LabelSet
    /\ FileOf(idx - 1) = EmptyColl
    /\ denom_by_bin[LabelOf(idx - 1)] >= 1

HasGap(file) == \E i \in DOMAIN file.feats : file.feats[i].geom # "poly"
HasPolygon(file) == \E i \in DOMAIN file.feats : file.feats[i].geom = "poly"

\* C9: in a member that reads and rasterizes, the empty and the missing
\* geometries are passed over: its polygons are added to the count grid and
\* the member is counted in the denominator.
C9_BadGeometrySkipped ==
    [][(InMemberStep /\ LabelOf(idx) \in LabelSet /\ Processable(FileOf(idx))
          /\ HasGap(FileOf(idx)) /\ HasPolygon(FileOf(idx)))
          => /\ denom_by_bin' = [denom_by_bin EXCEPT ![LabelOf(idx)] = @ + 1]
             /\ counts_by_bin' =
                   [counts_by_bin EXCEPT
                      ![LabelOf(idx)] =
                          [c \in Cells |-> (@[c] + MemberGrid(FileOf(idx))[c]) % UInt16]]
             /\ pc' = "loop"]_vars

C9_Witness ==
    /\ pc = "loop"
    /\ idx > 1
    /\ LabelOf(idx - 1) \in LabelSet
    /\ Processable(FileOf(idx - 1))
    /\ HasGap(FileOf(idx - 1)) /\ HasPolygon(FileOf(idx - 1))
    /\ \E c \in Cells : counts_by_bin[LabelOf(idx - 1)][c] >= 1

\* C10: the mapping returned by a run, and the one written to the manifest,
\* has no entry for a bin whose denominator is 0 in that run.
C10_NoGridForEmptyBin ==
    result = "returned" =>
        /\ \A l \in DOMAIN prob_paths : manifest[1].denominators[l] # 0
        /\ \A l \in DOMAIN manifest[1].probability_tifs :
              manifest[1].denominators[l] # 0

C18_MismatchFatalAtSetup ==
    Len(bins) # Len(bin_labels) => setup \in {"args", "ValueError"} /\ ret_label = ""

\* A call of rank_aois_by_probability has just ended.
RankEnded == result \in {"ranked", "GEOSException"}

\* The AOIs that entered gdf_all with a polygon, in the order of aoi_data.
RankedAois ==
    LET IsPolygon(r) == ~r.nan
    IN  SelectSeq(AoiData(members), IsPolygon)

SameKey(a, b) ==
    /\ a.centroid_lon = b.centroid_lon
    /\ a.centroid_lat = b.centroid_lat
    /\ a.bin = b.bin

\* The risk groups that exist: one per key of an AOI.
NumberOfGroups ==
    Cardinality({<<RankedAois[i].centroid_lon, RankedAois[i].centroid_lat,
                   RankedAois[i].bin>> : i \in DOMAIN RankedAois})

\* C12: the table returned by rank_aois_by_probability(top_n = N), N >= 0,
\* is sorted non-increasing by ensemble_count and has min(N, number of
\* groups) rows, none when no member holds an AOI.
C12_SortedTopN ==
    result = "ranked" =>
        /\ \A i, j \in DOMAIN ranked :
               i < j => ranked[i].ensemble_count >= ranked[j].ensemble_count
        /\ Len(ranked) = Min(top_n, NumberOfGroups)
        /\ AoiData(members) = <<>> => Len(ranked) = 0

\* top_n = 1 cuts a table of several groups down to one with the largest
\* ensemble_count.
C12_Witness ==
    /\ result = "ranked"
    /\ top_n = 1
    /\ Len(ranked) = 1
    /\ NumberOfGroups > 1
    /\ \E i \in DOMAIN RankedAois :
          /\ ~SameKey(RankedAois[i], ranked[1])
          /\ ranked[1].ensemble_count > 1

\* C13: the AOIs are grouped by the key (centroid longitude rounded to one
\* decimal, centroid latitude rounded to one decimal, bin label): every AOI
\* lies in exactly one group, that of its key; a group holds the AOIs of its
\* key and no other; two AOIs of different methods that alone share a key
\* make one group with ensemble_count = 2.
C13_GroupedByKey ==
    (result = "ranked" /\ top_n >= NumberOfGroups) =>
        /\ \A i \in DOMAIN RankedAois :
               Cardinality({k \in DOMAIN ranked : SameKey(ranked[k], RankedAois[i])}) = 1
        /\ \A k \in DOMAIN ranked :
               LET OfGroup(r) == SameKey(r, ranked[k])
                   own == SelectSeq(RankedAois, OfGroup)
               IN  /\ own # <<>>
                   /\ ranked[k].method = [i \in DOMAIN own |-> own[i].method]
                   /\ (Len(own) = 2 /\ own[1].method # own[2].method)
                          => ranked[k].ensemble_count = 2

\* Two members of different methods, one AOI each of different extent,
\* centroids rounding to the same tenths of a degree, same bin.
C13_Witness ==
    /\ result = "ranked"
    /\ \E k \in DOMAIN ranked :
          /\ ranked[k].ensemble_count = 2
          /\ Range(ranked[k].method) = {"standard", "enhanced"}
          /\ \E i, j \in DOMAIN RankedAois :
                /\ i # j
                /\ SameKey(RankedAois[i], ranked[k])
                /\ SameKey(RankedAois[j], ranked[k])
                /\ RankedAois[i].cells # RankedAois[j].cells

\* C14: with a population layer, the geometry intersected for a risk group
\* is the union of the geometries of the AOIs of that group and of no other
\* AOI: an AOI of another bin at the same rounded centroid adds nothing.
C14_UnionOfGroupOnly ==
    (result = "ranked" /\ census_gdf # <<>>) =>
        \A k \in DOMAIN ranked :
            ranked[k].combined_geom =
                UNION {RankedAois[i].cells :
                          i \in {j \in DOMAIN RankedAois : SameKey(RankedAois[j], ranked[k])}}

\* GEOS raises on the geometry merged for row k of the table.
GeosFails(k) ==
    \E i \in DOMAIN RankedAois :
        /\ RankedAois[i].centroid_lon = ranked[k].centroid_lon
        /\ RankedAois[i].centroid_lat = ranked[k].centroid_lat
        /\ ~RankedAois[i].valid

\* The units of the layer that intersect the geometry merged for row k.
UnitsHit(k) ==
    LET Hits(u) == u.cells \cap ranked[k].combined_geom # {}
    IN  SelectSeq(census_gdf[1].units, Hits)

\* C15 as stated: population_affected is the sum over the intersecting units
\* of unit_population * (intersection_area / unit_original_area), for a
\* layer that carries a population column.
C15_WeightedSum ==
    (result = "ranked" /\ census_gdf # <<>>) =>
        \A k \in DOMAIN ranked :
            (~GeosFails(k) /\ census_gdf[1].pop_col) =>
                LET geom == [cells |-> ranked[k].combined_geom]
                    den == PopDen(UnitsHit(k))
                IN  ranked[k].population_affected[1] * den = PopNum(UnitsHit(k), geom, den)

\* C15, amended: population_affected is 0 when GEOS raises on the geometry
\* merged for the group or the layer has none of the known population
\* columns, and otherwise the integer part of the sum over the intersecting
\* units of unit_population * (intersection_area / unit_original_area); it
\* is 0 when no unit intersects.
C15_TruncatedWeightedSum ==
    (result = "ranked" /\ census_gdf # <<>>) =>
        \A k \in DOMAIN ranked :
            LET geom == [cells |-> ranked[k].combined_geom]
                den == PopDen(UnitsHit(k))
                num == PopNum(UnitsHit(k), geom, den)
                pop == ranked[k].population_affected[1]
            IN  /\ Len(ranked[k].population_affected) = 1
                /\ IF GeosFails(k) \/ ~census_gdf[1].pop_col
                   THEN pop = 0
                   ELSE pop * den <= num /\ num < (pop + 1) * den
                /\ UnitsHit(k) = <<>> => pop = 0

\* A unit of population 1001 covered to one half, and a unit not touched:
\* 500.5 is reported as 500.
C15_Witness ==
    /\ result = "ranked"
    /\ census_gdf = <<Census(<<CountyOdd, Tract>>, TRUE)>>
    /\ \E k \in DOMAIN ranked :
          /\ ranked[k].combined_geom = {1}
          /\ ranked[k].population_affected = <<500>>

\* C16: a geometry error met while a risk group is handled (in the union of
\* its geometries, in intersects or in intersection) costs that group its
\* population only: the call still returns the ranked table.
C16_GeometryErrorIsLocal ==
    (RankEnded /\ census_gdf # <<>>) =>
        /\ result = "ranked"
        /\ \A k \in DOMAIN ranked : GeosFails(k) => ranked[k].population_affected = <<0>>

\* C17 as stated: without a population layer every ranked group has
\* population_affected = 0.
C17_ZeroWithoutCensus ==
    (RankEnded /\ census_gdf = <<>>) =>
        /\ result = "ranked"
        /\ \A k \in DOMAIN ranked : ranked[k].population_affected = <<0>>

\* C17, amended: without a population layer the call returns the ranked
\* table and the table has no population_affected column: no group carries
\* a value for it.
C17_NoColumnWithoutCensus ==
    (RankEnded /\ census_gdf = <<>>) =>
        /\ result = "ranked"
        /\ \A k \in DOMAIN ranked : ranked[k].population_affected = <<>>

C17_Witness ==
    /\ result = "ranked"
    /\ census_gdf = <<>>
    /\ Len(ranked) > 1
    /\ ranked[1].population_affected = <<>>

\* C19: generate_aois masks with value > threshold: when no cell of the
\* field exceeds the threshold, cells equal to it included, the call returns
\* an empty AOI collection (a GeoDataFrame without rows).
C19_EmptyWhenNothingExceeds ==
    (/\ aoi_pc # "args"
     /\ prior_regions = 0
     /\ \A c \in AoiCells : precip_data[c] <= aoi_threshold) =>
        aoi_pc = "returned" /\ gdf_aoi = <<>>

\* A field with cells exactly at the threshold and none above it, with no
\* area cutoff.
C19_Witness ==
    /\ aoi_pc = "returned"
    /\ prior_regions = 0
    /\ min_area = <<0>>
    /\ \E c \in AoiCells : precip_data[c] = aoi_threshold /\ aoi_threshold > 0
    /\ \A c \in AoiCells : precip_data[c] <= aoi_threshold
    /\ gdf_aoi = <<>>

\* The cutoff of the call, and the area of a region of the field.
Cutoff == IF min_area = <<>> THEN min_aoi_area ELSE min_area[1]
AtLeastCutoff(area) == area[1] >= Cutoff * area[2]

\* C20: every AOI returned by generate_aois has area >= min_area; a region
\* above the threshold is returned as an AOI exactly when the area of its
\* polygon is at least the cutoff.
C20_AreaCutoff ==
    aoi_pc = "returned" =>
        /\ \A i \in DOMAIN gdf_aoi : AtLeastCutoff(gdf_aoi[i].area_deg2)
        /\ \A region \in Regions({c \in AoiCells : precip_data[c] > aoi_threshold}) :
               AtLeastCutoff(PolygonArea(Cardinality(region), ds))
                   <=> \E i \in DOMAIN gdf_aoi : gdf_aoi[i].geometry = region

\* On pixels of 0.0025 deg2 the region of all four pixels has the area of the
\* default cutoff 0.01 deg2 exactly, and is kept.
C20_Witness ==
    /\ aoi_pc = "returned"
    /\ min_area = <<>>
    /\ Len(gdf_aoi) = 1
    /\ gdf_aoi[1].area_deg2[1] = min_aoi_area * gdf_aoi[1].area_deg2[2]

\* The label that label() gave to the connected component of an AOI of the
\* window.
WindowLabels == label(Mask(precip_data, aoi_threshold)).labeled
ComponentLabel(row) == WindowLabels[row.geometry]

\* C21: within one run of generate_aois every emitted AOI id is a positive
\* integer equal to the label of its connected component, and no two AOIs
\* share an id, whatever the number of components, the narrowing of the
\* labels to 16-bit integers for the polygonization included.
C21_IdIsComponentLabel ==
    aoi_pc = "returned" =>
        /\ \A i \in DOMAIN gdf_aoi :
               /\ gdf_aoi[i].id > 0
               /\ gdf_aoi[i].geometry \subseteq AoiCells => gdf_aoi[i].id = ComponentLabel(gdf_aoi[i])
        /\ \A i, j \in DOMAIN gdf_aoi : i # j => gdf_aoi[i].id # gdf_aoi[j].id

\* The cells of the connected component of an AOI, and the field over them.
SameRatio(a, b) == a[1] * b[2] = b[1] * a[2]
OneBlock(v) ==
    /\ prior_regions = 0
    /\ v > aoi_threshold
    /\ \A c \in AoiCells : precip_data[c] \in {0, v}
    /\ Cardinality(Regions(Mask(precip_data, aoi_threshold))) = 1

\* C22: for every AOI returned by generate_aois, mean and max are the mean
\* and the maximum of the field over exactly the cells of the AOI's connected
\* component; one block of constant value v above the threshold, surrounded
\* by zeros, with min_area 0 yields exactly one AOI with mean = max = v.
C22_StatisticsOverOwnCells ==
    aoi_pc # "args" =>
        /\ \A i \in DOMAIN gdf_aoi :
               gdf_aoi[i].geometry \subseteq AoiCells =>
                  /\ SameRatio(gdf_aoi[i].mean_precip_mm,
                               <<SumOver(gdf_aoi[i].geometry, precip_data),
                                 Cardinality(gdf_aoi[i].geometry)>>)
                  /\ gdf_aoi[i].max_precip_mm = MaxOver(gdf_aoi[i].geometry, precip_data)
        /\ \A v \in PrecipValues :
               (OneBlock(v) /\ min_area = <<0>>) =>
                  /\ aoi_pc = "returned"
                  /\ Len(gdf_aoi) = 1
                  /\ gdf_aoi[1].mean_precip_mm = <<v * gdf_aoi[1].mean_precip_mm[2],
                                                   gdf_aoi[1].mean_precip_mm[2]>>
                  /\ gdf_aoi[1].max_precip_mm = v

\* The whole field has no cell above the threshold.
EmptyMask == prior_regions = 0 /\ Mask(precip_data, aoi_threshold) = {}

\* C26 as stated: when the mask is entirely empty, generate_aois returns the
\* empty result without invoking the connected-component labeling step.
C26_NoLabelingOnEmptyMask ==
    (aoi_pc # "args" /\ EmptyMask) =>
        /\ aoi_pc = "returned" /\ gdf_aoi = <<>>
        /\ \A i \in DOMAIN aoi_calls : aoi_calls[i] # "label"

\* C26, amended: when the mask is entirely empty, generate_aois invokes the
\* labeling step, which finds no component, and returns the empty result
\* right after it: no geotransform is built and no polygonization runs.
C26_LabelingOnlyOnEmptyMask ==
    (aoi_pc # "args" /\ EmptyMask) =>
        /\ aoi_pc = "returned" /\ gdf_aoi = <<>>
        /\ aoi_calls = <<"label">>
        /\ transform = <<>>

\* An all-dry field, and the same call on a field with a wet cell, where
\* the later steps do run.
C26_Witness ==
    /\ aoi_pc = "returned"
    /\ EmptyMask
    /\ aoi_threshold = 0
    /\ aoi_calls = <<"label">>

Next ==
    \/ collect_members
    \/ Create_Begin
    \/ Create_Member
    \/ Create_Finish
    \/ DiskChange

Spec == Init /\ [][Next]_vars

\* What the member at position i adds to cell c of bin l: 1 when its file is
\* read and rasterized and one of its polygons covers the cell.
AddedBy(i, l, c) ==
    IF LabelOf(i) = l /\ Processable(FileOf(i)) /\ MemberGrid(FileOf(i))[c] = 1
    THEN 1 ELSE 0

\* After the step the count is within the denominator and the clip to
\* [0, 1] leaves the quotient as it is.
WithinDenominator(count, denom) ==
    /\ count <= denom
    /\ denom > 0 => Clip(<<count, denom>>) = <<count, denom>>

\* C27 as stated: at every step of the accumulation loop, for every bin and
\* cell, the member adds at most 1 and the unsigned 16-bit counter does not
\* wrap (the new count is the old one plus what the member adds), the
\* stored count is at most the bin's denominator, and the clip to [0, 1]
\* changes no value.
C27_CountNeverWraps ==
    [][(InMemberStep /\ pc' = "loop") =>
          \A l \in LabelSet : \A c \in Cells :
              /\ counts_by_bin'[l][c] = counts_by_bin[l][c] + AddedBy(idx, l, c)
              /\ WithinDenominator(counts_by_bin'[l][c], denom_by_bin'[l])]_vars

\* C27, amended: at every step of the accumulation loop, for every bin and
\* cell, the stored count is at most the bin's denominator, so the clip to
\* [0, 1] changes no value; each member adds at most 1 to a cell, modulo
\* 2^16: the counter is exact up to 65535 covering members and wraps to 0
\* at the 65536th.
C27_CountAtMostDenominator ==
    [][(InMemberStep /\ pc' = "loop") =>
          \A l \in LabelSet : \A c \in Cells :
              /\ counts_by_bin'[l][c] = (counts_by_bin[l][c] + AddedBy(idx, l, c)) % UInt16
              /\ WithinDenominator(counts_by_bin'[l][c], denom_by_bin'[l])]_vars

\* The 65536th member of a bin has just been added to a cell that all
\* members before it cover.
C27_Witness ==
    /\ pc = "loop"
    /\ idx > 1
    /\ prior_members + idx - 1 = UInt16
    /\ \E l \in LabelSet : \E c \in Cells :
          /\ AddedBy(idx - 1, l, c) = 1
          /\ denom_by_bin[l] = UInt16
          /\ counts_by_bin[l][c] = 0

\* The configured combinations, and the entries of one of them.
Configured ==
    Range(config.forecast_methods) \X Range(config.forecast_dates)
        \X Range(config.fxx_list) \X Range(config.thresholds)
EntriesOf(q) ==
    IF <<q[1], q[2]>> \notin DOMAIN results THEN {}
    ELSE {k \in DOMAIN results[<<q[1], q[2]>>] :
             results[<<q[1], q[2]>>][k].by = <<q[3], q[4]>>}

\* C25: process_all_forecasts always completes: a failure in one
\* combination is recorded as its error entry and the later combinations
\* are still processed, so on return every configured combination has
\* exactly one entry, statistics or error, and the summary has been saved.
C25_AlwaysCompletes ==
    /\ fc_pc # "raised"
    /\ fc_pc = "returned" =>
           /\ summary = <<results>>
           /\ \A q \in Configured : Cardinality(EntriesOf(q)) = 1

\* C29: two distinct configured combinations never share a results key or
\* an AOI file name: on return the entry and the AOI file under the key of
\* every combination are its own, also for thresholds that are no integers
\* and have the same integer part.
C29_NoSharedKey ==
    fc_pc = "returned" =>
        \A q \in Configured :
            LET where == <<q[1], q[2]>>
                key == Key(q[3], q[4])
            IN  /\ results[where][key].by = <<q[3], q[4]>>
                /\ <<q[1], q[2], key>> \in DOMAIN aoi_files =>
                       aoi_files[<<q[1], q[2], key>>].by = <<q[3], q[4]>>

\* C30: after any sequence of download_file calls for one filename, failed
\* and interrupted transfers included, a call that returns the path as
\* already cached returns a file that was downloaded completely.
C30_CachedIsComplete ==
    dl_ret = "cached" => cache_file = <<remote_chunks>>

\* A longitude in the -180..180 convention.
InRange(lon) == -18000 <= lon /\ lon <= 18000

\* The member files whose bounds went into the extent, and the extent before
\* the padding.
GridSet == out_grid.extent # <<>> /\ ~out_grid.extent[1].nan
ReadFiles == Bounded(members)

\* C23: the shared output grid is the padded union of the Members' extents:
\* the bounding box of the polygons of every non-empty Member, as they are
\* rasterized, lies inside [west, east] x [south, north], also for Members
\* whose longitudes are in the 0..360 convention.
C23_MembersInsideGrid ==
    (result = "collected" /\ GridSet) =>
        \A s \in ReadFiles :
            /\ out_grid.extent[1].west <= file_bounds[s].minx
            /\ file_bounds[s].maxx <= out_grid.extent[1].east
            /\ out_grid.extent[1].south <= file_bounds[s].miny
            /\ file_bounds[s].maxy <= out_grid.extent[1].north

\* C24: after the longitude normalization of generate_aois and of
\* collect_members both longitudes of the bounding box are in -180..180, for
\* bounds in either convention, and the geotransform is built from the
\* normalized bounds.
C24_LongitudesNormalized ==
    /\ transform # <<>> =>
           /\ InRange(transform[1].west) /\ InRange(transform[1].east)
           /\ ds.lon_min > 18000 => transform[1].west = ds.lon_min - 36000
           /\ ds.lon_max > 18000 => transform[1].east = ds.lon_max - 36000
    /\ (result = "collected" /\ GridSet) =>
           /\ InRange(out_grid.extent[1].west + pad)
           /\ InRange(out_grid.extent[1].east - pad)
           /\ out_grid.shape # <<>>
           /\ out_grid.shape[1].width =
                  CeilDiv(out_grid.extent[1].east - out_grid.extent[1].west, resolution_deg)

\* A field and a member file both given in the 0..360 convention.
C24_Witness ==
    /\ transform # <<>>
    /\ ds.lon_min > 18000
    /\ result = "collected" /\ GridSet
    /\ ReadFiles # {}
    /\ \A s \in ReadFiles : file_bounds[s].minx > 18000

\* C28: the normalization keeps the orientation of the bounding box: west <
\* east before it gives west < east after it, in generate_aois and in
\* collect_members, and the width of the grid is positive.
C28_OrientationPreserved ==
    /\ (transform # <<>> /\ ds.lon_min < ds.lon_max) =>
           transform[1].west < transform[1].east
    /\ (result = "collected" /\ GridSet /\ ReadFiles # {}) =>
           /\ out_grid.extent[1].west + pad < out_grid.extent[1].east - pad
           /\ out_grid.shape[1].width > 0

\* ---------------------------------------------------- the ranking on its own
\* An EnsembleProcessor over the files of a ranking run, ranked with and
\* without a population layer.
InitRank ==
    /\ \E cfg \in Configs : bins = cfg.bins /\ bin_labels = cfg.labels
    /\ disk \in [Slots -> RankContents]
    /\ members = <<>>
    /\ prob_paths = NoEntries
    /\ out_files = NoEntries
    /\ manifest = <<>>
    /\ pc = "idle"
    /\ idx = 0
    /\ counts_by_bin = ZeroCounts
    /\ denom_by_bin = ZeroDenoms
    /\ result = "none"
    /\ written = {}
    /\ runs = 0
    /\ ranked = <<>>
    /\ top_n = 0
    /\ census_gdf = <<>>
    /\ rank_calls = 0
    /\ forecast_dates = "valid"
    /\ setup = "EnsembleProcessor"
    /\ arg_threshold = 0
    /\ ret_label = ""
    /\ NoAoiCall
    /\ FilesAtHome

NextRank ==
    \/ collect_members
    \/ rank_aois_by_probability
    \/ rank_with_census
    \/ DiskChange

SpecRank == InitRank /\ [][NextRank]_vars

\* ------------------------------------- the bin configuration and classifier
\* Bin and label lists before either constructor has run; no member file.
InitBins ==
    /\ \E cfg \in BinConfigs : bins = cfg.bins /\ bin_labels = cfg.labels
    /\ forecast_dates \in DateInputs
    /\ setup = "args"
    /\ arg_threshold = 0
    /\ ret_label = ""
    /\ NoAoiCall
    /\ FilesAtHome
    /\ disk = [s \in Slots |-> Unreadable]
    /\ members = <<>>
    /\ prob_paths = NoEntries
    /\ out_files = NoEntries
    /\ manifest = <<>>
    /\ pc = "idle"
    /\ idx = 0
    /\ counts_by_bin = ZeroCounts
    /\ denom_by_bin = ZeroDenoms
    /\ result = "none"
    /\ written = {}
    /\ runs = 0
    /\ ranked = <<>>
    /\ top_n = 0
    /\ census_gdf = <<>>
    /\ rank_calls = 0

NextBins ==
    \/ ForecastConfig_post_init
    \/ EnsembleProcessor_init
    \/ Call_threshold_to_bin_label

SpecBins == InitBins /\ [][NextBins]_vars

\* ------------------------------------------------ the AOI extraction alone
\* A ForecastProcessor with the default configuration and the arguments of
\* one call of generate_aois; no ensemble is built.
InitAoi ==
    /\ precip_data \in [AoiCells -> PrecipValues]
    /\ ds \in Extents
    /\ aoi_threshold \in AoiThresholds
    /\ min_area \in MinAreaArgs
    /\ prior_regions \in PriorChoices
    /\ prior_regions > 0 =>
           BelowCutoff(PolygonArea(1, ds),
                       IF min_area = <<>> THEN min_aoi_area ELSE min_area[1])
    /\ aoi_pc = "args"
    /\ gdf_aoi = <<>>
    /\ transform = <<>>
    /\ aoi_calls = <<>>
    /\ bins = DefaultBins
    /\ bin_labels = DefaultLabels
    /\ forecast_dates = "valid"
    /\ setup = "ForecastConfig"
    /\ arg_threshold = 0
    /\ ret_label = ""
    /\ disk = [s \in Slots |-> Unreadable]
    /\ members = <<>>
    /\ prob_paths = NoEntries
    /\ out_files = NoEntries
    /\ manifest = <<>>
    /\ pc = "idle"
    /\ idx = 0
    /\ counts_by_bin = ZeroCounts
    /\ denom_by_bin = ZeroDenoms
    /\ result = "none"
    /\ written = {}
    /\ runs = 0
    /\ ranked = <<>>
    /\ top_n = 0
    /\ census_gdf = <<>>
    /\ rank_calls = 0
    /\ FilesAtHome

NextAoi == generate_aois

SpecAoi == InitAoi /\ [][NextAoi]_vars

\* ----------------------------------------- the forecast run, the downloads
\* No ensemble is built and generate_aois is not called on its own.
NoEnsemble ==
    /\ bins = DefaultBins
    /\ bin_labels = DefaultLabels
    /\ disk = [s \in Slots |-> Unreadable]
    /\ members = <<>>
    /\ prob_paths = NoEntries
    /\ out_files = NoEntries
    /\ manifest = <<>>
    /\ pc = "idle"
    /\ idx = 0
    /\ counts_by_bin = ZeroCounts
    /\ denom_by_bin = ZeroDenoms
    /\ result = "none"
    /\ written = {}
    /\ runs = 0
    /\ ranked = <<>>
    /\ top_n = 0
    /\ census_gdf = <<>>
    /\ rank_calls = 0
    /\ forecast_dates = "valid"
    /\ setup = "ForecastConfig"
    /\ arg_threshold = 0
    /\ ret_label = ""
    /\ NoAoiCall
    /\ file_bounds = [s \in Slots |-> HomeBox]
    /\ prior_members = 0
    /\ out_grid = NoGrid

InitForecast ==
    /\ config \in ForecastConfigs
    /\ fc_pc = "idle"
    /\ fc_pos = [m |-> 1, d |-> 1, k |-> 1]
    /\ results = NoEntries
    /\ aoi_files = NoEntries
    /\ summary = <<>>
    /\ faults = 0
    /\ NoDownload
    /\ NoEnsemble

NextForecast ==
    \/ process_all_forecasts
    \/ Forecast_Method
    \/ Forecast_Date
    \/ Forecast_Combination

SpecForecast == InitForecast /\ [][NextForecast]_vars

InitDownload ==
    /\ remote_chunks \in 1..MaxChunks
    /\ cache_file = <<>>
    /\ dl_pc = "idle"
    /\ dl_ret = "none"
    /\ dl_calls = 0
    /\ NoForecastRun
    /\ NoEnsemble

NextDownload ==
    \/ download_file
    \/ Write_Chunk
    \/ Transfer_Fails
    \/ Download_Done

SpecDownload == InitDownload /\ [][NextDownload]_vars

\* ------------------------------------------------- a very large ensemble
\* The member loop of one run over a list of BulkMembers + NumSlots members
\* of the default bin "6-39", taken up after its first BulkMembers steps.
\* Those prior members were files with the one polygon of OnePoly, so each
\* of their steps added 1 to the cells of that polygon and 1 to the
\* denominator; members holds the rest of the list, whose files are any of
\* TailContents.
TailContents == {OnePoly, Mixed, EmptyColl, Unreadable}

InitCount ==
    /\ bins = DefaultBins
    /\ bin_labels = DefaultLabels
    /\ disk \in [Slots -> TailContents]
    /\ members = [i \in Slots |-> Member(i)]
    /\ prior_members = BulkMembers
    /\ NoForecastRun
    /\ NoDownload
    /\ file_bounds = [s \in Slots |-> HomeBox]
    /\ out_grid = [extent |-> <<[nan |-> FALSE,
                                 west |-> HomeBox.minx - pad, south |-> HomeBox.miny - pad,
                                 east |-> HomeBox.maxx + pad, north |-> HomeBox.maxy + pad]>>,
                   shape |-> <<[width |-> CeilDiv(HomeBox.maxx - HomeBox.minx + 2 * pad,
                                                  resolution_deg),
                                height |-> CeilDiv(HomeBox.maxy - HomeBox.miny + 2 * pad,
                                                   resolution_deg)]>>]
    /\ pc = "loop"
    /\ idx = 1
    /\ counts_by_bin =
          [ZeroCounts EXCEPT ![threshold_to_bin_label(SlotThr(1))] =
              [c \in Cells |-> IF c \in PolyNW.cells THEN prior_members % UInt16 ELSE 0]]
    /\ denom_by_bin =
          [ZeroDenoms EXCEPT ![threshold_to_bin_label(SlotThr(1))] = prior_members]
    /\ result = "running"
    /\ written = {}
    /\ runs = 1
    /\ prob_paths = NoEntries
    /\ out_files = NoEntries
    /\ manifest = <<>>
    /\ ranked = <<>>
    /\ top_n = 0
    /\ census_gdf = <<>>
    /\ rank_calls = 0
    /\ forecast_dates = "valid"
    /\ setup = "EnsembleProcessor"
    /\ arg_threshold = 0
    /\ ret_label = ""
    /\ NoAoiCall

NextCount ==
    \/ Create_Member
    \/ Create_Finish

SpecCount == InitCount /\ [][NextCount]_vars

\* --------------------------------------------- the longitude handling alone
\* Member files anywhere in BoxChoices, readable or not, and a call of
\* generate_aois on a dry or a wet field over any of the extents.  The place
\* of a file is given by file_bounds alone; the centroids of its features
\* are not read by collect_members.
InitLon ==
    /\ disk \in [Slots -> {Unreadable, OnePoly}]
    /\ file_bounds \in [Slots -> BoxChoices]
    /\ prior_members = 0
    /\ NoForecastRun
    /\ NoDownload
    /\ out_grid = NoGrid
    /\ precip_data \in {[c \in AoiCells |-> v] : v \in {0, PriorValue}}
    /\ ds \in Extents
    /\ aoi_threshold = 0
    /\ min_area = <<0>>
    /\ prior_regions = 0
    /\ aoi_pc = "args"
    /\ gdf_aoi = <<>>
    /\ transform = <<>>
    /\ aoi_calls = <<>>
    /\ bins = DefaultBins
    /\ bin_labels = DefaultLabels
    /\ forecast_dates = "valid"
    /\ setup = "EnsembleProcessor"
    /\ arg_threshold = 0
    /\ ret_label = ""
    /\ members = <<>>
    /\ prob_paths = NoEntries
    /\ out_files = NoEntries
    /\ manifest = <<>>
    /\ pc = "idle"
    /\ idx = 0
    /\ counts_by_bin = ZeroCounts
    /\ denom_by_bin = ZeroDenoms
    /\ result = "none"
    /\ written = {}
    /\ runs = 0
    /\ ranked = <<>>
    /\ top_n = 0
    /\ census_gdf = <<>>
    /\ rank_calls = 0

NextLon ==
    \/ collect_members
    \/ generate_aois

SpecLon == InitLon /\ [][NextLon]_vars
====
